---------------------------- MODULE Spec2Model ----------------------------
(***************************************************************************)
(* Valuedex: the hybrid forecasting engine (backend/app/ml/predictor.py)   *)
(* and the investment scorer (backend/app/services/features.py).           *)
(*                                                                         *)
(* Numbers.  The program computes in binary floating point.  The model     *)
(* computes in fixed point: a price, a feature value, a percentage or a    *)
(* multiplier x is the integer x * 10^3 ("milli"), a sub-score, a score or *)
(* an exponent x is the integer x * 10^6 ("micro"), an annualised           *)
(* volatility x is the integer x * 10^4 (basis points).  Divisions round   *)
(* towards minus infinity.  A float that is not a number is the value NaN; *)
(* Python's None is the value None.  np.exp leaves the range of a float    *)
(* as it does in the program: to inf above ExpOverflow, to 0.0 below       *)
(* ExpUnderflow.                                                           *)
(***************************************************************************)
EXTENDS Integers, Sequences, FiniteSets, TLC

VARIABLES
    features,       \* the feature vector handed to both entry points
    rating,         \* <<>> or <<score, label>>: calculate_investment_score's return value
    fprice,         \* <<>> or <<years_ahead, price>>: predict_with_features' return value
    price_history,  \* the list of observations handed to predict_hybrid
    seed,           \* the state of numpy's global generator when the process started
    rng,            \* the state of numpy's global generator (np.random)
    calls,          \* the invocations of predictor.predict_hybrid, one frame each
    multiplier,     \* <<>> or <<m>>: calculate_sentiment_multiplier's return value
    invoked,        \* the years_ahead of the calls of predict_hybrid so far, in order
    timeline,       \* the invocation of predictor.generate_prediction_timeline
    smoothing,      \* <<>> or <<call>>: exponential_smoothing's arguments and return value
    preferred,      \* <<>> or <<call>>: _prefer_range's arguments and return value
    predictor       \* the attributes of the module's PricePredictor instance

vars ==
    <<features, rating, fprice, price_history, seed, rng, calls, multiplier, invoked,
      timeline, smoothing, preferred, predictor>>

MILLI == 10^3
MICRO == 10^6
BASIS == 10^4

\* Python's None, and a float NaN: two values no computation of the model yields.
None == -(10^9)
NaN == -(10^9) - 1

IsNum(x) == x # None /\ x # NaN

\* dict.get(key, default): the default only when the key is missing.
Get(d, k, default) == IF k \in DOMAIN d THEN d[k] ELSE default

\* Python's max(a, b) and min(a, b) on numbers.
Max(a, b) == IF b > a THEN b ELSE a
Min(a, b) == IF b < a THEN b ELSE a

\* round(x, 2) of a micro value: to the nearest hundredth, a tie to the even one.
round2(x) ==
    LET q == x \div 10000
        r == x % 10000
    IN  IF r > 5000 \/ (r = 5000 /\ q % 2 = 1) THEN (q + 1) * 10000 ELSE q * 10000

(***************************************************************************)
(* features.py: FeatureService                                             *)
(***************************************************************************)

\* _clamp(value, min_value=0.0, max_value=1.0), micro.
_clamp(value) == Max(0, Min(MICRO, value))

\* _scale(value, min_value, max_value): value in milli, the range in units; micro.
_scale(value, min_value, max_value) ==
    IF max_value = min_value
    THEN MICRO \div 2
    ELSE _clamp(((value - min_value * MILLI) * MILLI) \div (max_value - min_value))

\* The score without the decay: 1.0 everywhere between the absolute bounds.
_prefer_range_flat(value, ideal_min, ideal_max, absolute_min, absolute_max) ==
    IF value <= absolute_min * MILLI \/ value >= absolute_max * MILLI THEN 0 ELSE MICRO

\* _prefer_range: value in milli, the four bounds in units; micro.
_prefer_range(value, ideal_min, ideal_max, absolute_min, absolute_max) ==
    IF value <= absolute_min * MILLI \/ value >= absolute_max * MILLI THEN 0
    ELSE IF ideal_min * MILLI <= value /\ value <= ideal_max * MILLI THEN MICRO
    ELSE LET below == value < ideal_min * MILLI
             gap == IF below THEN ideal_min * MILLI - value ELSE value - ideal_max * MILLI
             span == IF below THEN ideal_min - absolute_min ELSE absolute_max - ideal_max
         IN  IF span <= 0 THEN 0 ELSE _clamp(MICRO - (gap * MILLI) \div span)

\* "x if x is not None else d"
IfNone(x, d) == IF x # None THEN x ELSE d

\* The clamp of the composite score to the 1-10 scale (micro).
ClampScoreNoLower(score) == Min(10 * MICRO, score)
ClampScore(score) == Max(1 * MICRO, Min(10 * MICRO, score))

\* The rating the fixed thresholds give a score (micro).
RatingOf(score) ==
    IF score >= 8500000 THEN "Strong Buy"
    ELSE IF score >= 7000000 THEN "Buy"
    ELSE IF score >= 5500000 THEN "Hold"
    ELSE IF score >= 4000000 THEN "Underperform"
    ELSE "Sell"

\* calculate_investment_score: <<round(score, 2), rating>>, the score in micro.
calculate_investment_score(f) ==
    LET rarity_score == IfNone(f.rarity_score, 0)
        popularity_score == IfNone(f.popularity_score, 50 * MILLI)
        artist_score == IfNone(f.artist_score, 5 * MILLI)
        trend_30d == IfNone(f.trend_30d, 0)
        trend_90d == IfNone(f.trend_90d, 0)
        trend_1y == IfNone(f.trend_1y, 0)
        volatility == IfNone(f.volatility, 15 * MILLI)
        market_sentiment == IfNone(f.market_sentiment, 50 * MILLI)
        current_price == IfNone(f.current_price, 50 * MILLI)
        \* ((r/10)*0.4 + (p/100)*0.4 + (a/10)*0.2) * 10
        fundamentals == 400 * rarity_score + 40 * popularity_score + 200 * artist_score
        short_term == _scale(trend_30d, -15, 20)
        mid_term == _scale(trend_90d, -20, 25)
        long_term == _scale(trend_1y, -30, 40)
        momentum == (25 * short_term + 30 * mid_term + 45 * long_term) \div 10
        sentiment_component == _scale(market_sentiment, 35, 80)
        sentiment == (65 * sentiment_component + 35 * (popularity_score * 10)) \div 10
        volatility_quality == _prefer_range(volatility, 12, 28, 5, 45)
        liquidity_quality == _prefer_range(current_price, 25, 250, 5, 1000)
        stability == (70 * volatility_quality + 30 * liquidity_quality) \div 10
        fundamentals_scale == fundamentals \div 10
        price_scale == _scale(current_price, 50, 600)
        value_alignment == _clamp(MICRO \div 2 + ((fundamentals_scale - price_scale) * 6) \div 10)
        valuation == value_alignment * 10
        composite_score ==
            (30 * fundamentals + 25 * momentum + 15 * sentiment
                + 15 * stability + 15 * valuation) \div 100
        penalty ==
            (IF trend_30d < -10 * MILLI THEN 300000 ELSE 0)
            + (IF trend_90d < -8 * MILLI THEN 400000 ELSE 0)
            + (IF trend_1y < -5 * MILLI THEN 500000 ELSE 0)
            + (IF volatility > 35 * MILLI THEN 400000 ELSE 0)
        bonus ==
            IF fundamentals >= 7500000 /\ momentum >= 6500000 /\ sentiment >= 6000000
            THEN 300000 ELSE 0
        score == ClampScore(composite_score - penalty + bonus)
    IN  <<round2(score), RatingOf(score)>>


(***************************************************************************)
(* Fixed-point arithmetic                                                  *)
(***************************************************************************)

\* a * b / 10^6, exactly floored, without leaving 32 bits (|a|, |b| < 4 * 10^7).
FMul6(a, b) ==
    LET ah == a \div 1000
        al == a % 1000
        bh == b \div 1000
        bl == b % 1000
    IN  ah * bh + (ah * bl + al * bh + (al * bl) \div 1000) \div 1000

\* a * 10^6 / b, exactly floored, for b > 0 (|a|, b < 2 * 10^6).
FDiv6(a, b) ==
    LET q == (a * 1000) \div b
        r == (a * 1000) % b
    IN  q * 1000 + (r * 1000) \div b

\* base ** n for a micro base and n >= 0.
RECURSIVE FPow6(_, _)
FPow6(base, n) == IF n = 0 THEN MICRO ELSE FMul6(FPow6(base, n - 1), base)

\* The integer square root, by bisection: lo * lo <= n < hi * hi.
RECURSIVE SqrtIter(_, _, _)
SqrtIter(n, lo, hi) ==
    IF hi - lo <= 1 THEN lo
    ELSE LET mid == (lo + hi) \div 2
         IN  IF mid * mid <= n THEN SqrtIter(n, mid, hi) ELSE SqrtIter(n, lo, mid)

Isqrt(n) == SqrtIter(n, 0, 46341)

\* np.sqrt of a micro value, micro.
Sqrt6(v) ==
    IF v < 2000 THEN Isqrt(v * 10^6)
    ELSE IF v < 200000 THEN Isqrt(v * 10^4) * 10
    ELSE IF v < 20000000 THEN Isqrt(v * 100) * 100
    ELSE Isqrt(v) * 1000

\* The Taylor series of e^r for 0 <= r < 1 (micro): term is r^n / n!.
RECURSIVE ExpSeries(_, _, _)
ExpSeries(r, term, n) ==
    IF term = 0 \/ n > 12 THEN 0
    ELSE term + ExpSeries(r, FMul6(term, r) \div n, n + 1)

\* e^k for an integer k (micro).
RECURSIVE ExpInt(_)
ExpInt(k) ==
    IF k = 0 THEN MICRO
    ELSE IF k > 0 THEN FMul6(ExpInt(k - 1), 2718282)
    ELSE FMul6(ExpInt(k + 1), 367879)

\* np.exp(x) for a micro x with -20 <= x < 6, micro.
Exp6(x) == FMul6(ExpInt(x \div MICRO), ExpSeries(x % MICRO, MICRO, 1))

\* round(x, 3) of a value in basis points; nan stays nan.
round3b(x) ==
    IF x = NaN THEN NaN
    ELSE LET q == x \div 10
             r == x % 10
         IN  IF r > 5 \/ (r = 5 /\ q % 2 = 1) THEN (q + 1) * 10 ELSE q * 10

\* round(x, 2) of a milli value and round(x, 3) of a micro value; nan stays nan.
round2m(x) ==
    IF x = NaN THEN NaN
    ELSE LET q == x \div 10
             r == x % 10
         IN  IF r > 5 \/ (r = 5 /\ q % 2 = 1) THEN (q + 1) * 10 ELSE q * 10

round3(x) ==
    IF x = NaN THEN NaN
    ELSE LET q == x \div 1000
             r == x % 1000
         IN  IF r > 500 \/ (r = 500 /\ q % 2 = 1) THEN (q + 1) * 1000 ELSE q * 1000

(***************************************************************************)
(* predictor.py: the feature growth model                                  *)
(***************************************************************************)

\* "x or d": d replaces None and every falsy number (0, 0.0).
OrDefault(x, d) == IF x = None \/ x = 0 THEN d ELSE x

\* The momentum boost of predict_with_features, milli-percent.
trend_boost(trend_1y) ==
    IF trend_1y > 20 * MILLI THEN 6 * MILLI
    ELSE IF trend_1y > 10 * MILLI THEN 4 * MILLI
    ELSE IF trend_1y > 0 THEN 2 * MILLI
    ELSE IF trend_1y > -10 * MILLI THEN 0
    ELSE -3 * MILLI

\* predict_with_features(features, years_ahead): the predicted price, milli.
predict_with_features(f, years_ahead) ==
    LET current_price == OrDefault(Get(f, "current_price", None), 100 * MILLI)
        rarity_score == OrDefault(Get(f, "rarity_score", None), 5 * MILLI)
        popularity_score == OrDefault(Get(f, "popularity_score", None), 50 * MILLI)
        artist_score == OrDefault(Get(f, "artist_score", None), 5 * MILLI)
        trend_1y == OrDefault(Get(f, "trend_1y", None), 0)
        market_sentiment == OrDefault(Get(f, "market_sentiment", None), 50 * MILLI)
        volatility == OrDefault(Get(f, "volatility", None), 200)
        base_growth == 6 * MILLI
        rarity_boost == (rarity_score * 35) \div 100
        popularity_boost == (popularity_score * 5) \div 100
        artist_boost == (artist_score * 2) \div 10
        sentiment_boost == ((market_sentiment - 50 * MILLI) * 4) \div 50
        volatility_factor == Min(volatility * 2, 2 * MILLI)
        annual_growth_rate ==
            base_growth + rarity_boost + popularity_boost + artist_boost
                + trend_boost(trend_1y) + sentiment_boost + volatility_factor
        decay_factor == FPow6(950000, years_ahead - 1)
        adjusted_growth == FMul6(annual_growth_rate, decay_factor)
        growth_multiplier == FPow6(MICRO + adjusted_growth * 10, years_ahead)
    IN  FMul6(current_price, growth_multiplier)

\* The feature vector with every absent field replaced by its documented default.
DocumentedDefaults ==
    [current_price |-> 50 * MILLI, rarity_score |-> 0, popularity_score |-> 50 * MILLI,
     artist_score |-> 5 * MILLI, trend_30d |-> 0, trend_90d |-> 0, trend_1y |-> 0,
     volatility |-> 15 * MILLI, market_sentiment |-> 50 * MILLI]

(***************************************************************************)
(* predictor.py: the time-series side                                      *)
(***************************************************************************)

RECURSIVE SumSeq(_)
SumSeq(xs) == IF xs = <<>> THEN 0 ELSE Head(xs) + SumSeq(Tail(xs))

\* np.mean of a non-empty array of numbers.
Mean(xs) == SumSeq(xs) \div Len(xs)

\* prepare_time_series_data(price_history, include_volume): the arrays X (the
\* timestamps), y (the prices) and v (the volumes), each in the order of the input.
\* A v of None is the empty array here: both of its readers (lines 154 and 239)
\* treat None and an empty array alike.
prepare_time_series_data(history, include_volume) ==
    IF history = <<>> THEN [X |-> <<>>, y |-> <<>>, v |-> <<>>]
    ELSE [X |-> [k \in 1..Len(history) |-> history[k].date],
          y |-> [k \in 1..Len(history) |-> Get(history[k], "price", 0)],
          v |-> IF include_volume
                THEN [k \in 1..Len(history) |-> OrDefault(Get(history[k], "volume", 1), 1)]
                ELSE <<>>]

\* The loop of exponential_smoothing from index i on, lines 51-55; level, trend and
\* the smoothed values in micro.
RECURSIVE SmoothFrom(_, _, _, _, _, _, _)
SmoothFrom(data, i, level, trend, smoothed, alpha, beta) ==
    IF i > Len(data) THEN [smoothed |-> smoothed, level |-> level, trend |-> trend]
    ELSE LET last_level == level
             new_level == FMul6(alpha, data[i] * MILLI) + FMul6(MICRO - alpha, level + trend)
             new_trend == FMul6(beta, new_level - last_level) + FMul6(MICRO - beta, trend)
         IN  SmoothFrom(data, i + 1, new_level, new_trend, Append(smoothed, new_level),
                        alpha, beta)

\* The smoother started from a trend of 0, whatever the first two prices are.
exponential_smoothing_flat(data, alpha, beta) ==
    IF Len(data) < 2
    THEN [smoothed |-> data,
          level |-> IF Len(data) > 0 THEN data[Len(data)] * MILLI ELSE 0, trend |-> 0]
    ELSE SmoothFrom(data, 2, data[1] * MILLI, 0, <<data[1] * MILLI>>, alpha, beta)

\* exponential_smoothing(data, alpha, beta): the smoothed values, the final level
\* and the final trend (micro).  On fewer than two prices `smoothed` is the data
\* itself, as handed in (milli).
exponential_smoothing(data, alpha, beta) ==
    IF Len(data) < 2
    THEN [smoothed |-> data,
          level |-> IF Len(data) > 0 THEN data[Len(data)] * MILLI ELSE 0, trend |-> 0]
    ELSE SmoothFrom(data, 2, data[1] * MILLI, (data[2] - data[1]) * MILLI,
                    <<data[1] * MILLI>>, alpha, beta)

\* |x|
Abs(x) == IF x < 0 THEN -x ELSE x

\* np.sqrt(252), micro.
SqrtTradingDays == 15874508

\* The volatility from the root mean square of the returns: their spread about 0,
\* not about their mean.
calculate_volatility_rms(prices) ==
    IF Len(prices) < 2 THEN 0
    ELSE IF \E k \in 1..(Len(prices) - 1) : prices[k] = 0 THEN NaN
    ELSE LET returns == [k \in 1..(Len(prices) - 1) |->
                            FDiv6(prices[k + 1] - prices[k], prices[k])]
             squares == [k \in 1..Len(returns) |-> FMul6(returns[k], returns[k])]
         IN  FMul6(Sqrt6(Mean(squares)), SqrtTradingDays) \div (MICRO \div BASIS)

\* calculate_volatility(prices): np.std(np.diff(prices) / prices[:-1]) * sqrt(252),
\* in basis points.  A return over a previous price of 0 is inf or nan, and np.std
\* of an array that holds one is nan.  The returns are in micro; deviations of 40
\* and more, whose squares leave the range of micro, are squared in milli.
calculate_volatility(prices) ==
    IF Len(prices) < 2 THEN 0
    ELSE IF \E k \in 1..(Len(prices) - 1) : prices[k] = 0 THEN NaN
    ELSE LET returns == [k \in 1..(Len(prices) - 1) |->
                            FDiv6(prices[k + 1] - prices[k], prices[k])]
             mean == Mean(returns)
             deviations == [k \in 1..Len(returns) |-> Abs(returns[k] - mean)]
         IN  IF \A k \in 1..Len(deviations) : deviations[k] < 40 * MICRO
             THEN LET squares == [k \in 1..Len(deviations) |->
                                     FMul6(deviations[k], deviations[k])]
                  IN  FMul6(Sqrt6(Mean(squares)), SqrtTradingDays) \div (MICRO \div BASIS)
             ELSE LET coarse == [k \in 1..Len(deviations) |-> deviations[k] \div MILLI]
                      squares == [k \in 1..Len(coarse) |->
                                     (coarse[k] \div MILLI) * coarse[k]
                                         + ((coarse[k] % MILLI) * coarse[k]) \div MILLI]
                      variance == SumSeq([k \in 1..Len(squares) |->
                                             squares[k] \div Len(squares)])
                      std == Isqrt(variance \div 10) * 100
                  IN  FMul6(std, SqrtTradingDays) * (BASIS \div MILLI)

\* calculate_volume_weighted_price(prices, volumes), milli.
calculate_volume_weighted_price(prices, volumes) ==
    IF Len(volumes) = 0 \/ SumSeq(volumes) = 0 THEN Mean(prices)
    ELSE SumSeq([k \in 1..Len(prices) |-> prices[k] * volumes[k]]) \div SumSeq(volumes)

\* The upper bound alone.
ClipUpper(x, lo, hi) == IF x = NaN THEN NaN ELSE Min(x, hi)

\* np.clip(x, lo, hi)
Clip(x, lo, hi) == IF x = NaN THEN NaN ELSE Min(Max(x, lo), hi)

\* calculate_sentiment_multiplier(popularity_score, market_sentiment, trend_1y), micro.
calculate_sentiment_multiplier(popularity, sentiment, trend) ==
    LET popularity_score == IfNone(popularity, 50 * MILLI)
        market_sentiment == IfNone(sentiment, 50 * MILLI)
        trend_1y == IfNone(trend, 0)
        popularity_factor == (popularity_score * 15) \div 10
        sentiment_factor == (market_sentiment - 50 * MILLI) * 2
        momentum_factor ==
            IF trend_1y > 20 * MILLI THEN 100000
            ELSE IF trend_1y > 5 * MILLI THEN 50000
            ELSE IF trend_1y < -10 * MILLI THEN -100000
            ELSE 0
    IN  Clip(MICRO + popularity_factor + sentiment_factor + momentum_factor, 850000, 1250000)

\* The last n elements of xs: xs[-n:].
LastN(xs, n) == SubSeq(xs, Len(xs) - n + 1, Len(xs))

\* A daily trend limit of twice the source's.
MaxDailyTrendDouble(current_price) == 2 * current_price

\* max_daily_trend = current_price * 0.001, line 258: micro, for a milli price.
MaxDailyTrend(current_price) == current_price

\* predict_with_advanced_time_series, lines 231-259: what the simulation starts from.
\* Called for len(y) >= 2.  Prices in milli, trends in micro.
RecentWindow == 30
TimeSeriesSetup(history, f) ==
    LET data == prepare_time_series_data(history, TRUE)
        y == data.y
        volumes == data.v
        smoothed == exponential_smoothing(y, 200000, 50000)
        volatility == calculate_volatility(y)
        current_price ==
            IF Len(volumes) > 0
            THEN calculate_volume_weighted_price(
                     LastN(y, Min(RecentWindow, Len(y))),
                     LastN(volumes, Min(RecentWindow, Len(volumes))))
            ELSE y[Len(y)]
        sentiment_multiplier ==
            IF DOMAIN f # {}
            THEN calculate_sentiment_multiplier(
                     Get(f, "popularity_score", 50 * MILLI),
                     Get(f, "market_sentiment", 50 * MILLI),
                     Get(f, "trend_1y", 0))
            ELSE MICRO
        max_daily_trend == MaxDailyTrend(current_price)
        adjusted_trend ==
            Clip(FMul6(smoothed.trend, sentiment_multiplier), -max_daily_trend, max_daily_trend)
    IN  [y |-> y, level |-> smoothed.level, trend |-> smoothed.trend,
         volatility |-> volatility,
         current_price |-> current_price, sentiment_multiplier |-> sentiment_multiplier,
         adjusted_trend |-> adjusted_trend]

(***************************************************************************)
(* predictor.py: the Monte Carlo simulation                                *)
(***************************************************************************)

\* The model runs n_simulations = NSimulations paths (1000 in the source) and a
\* year of DaysPerYear days (365 in the source's "days = int(years_ahead * 365)");
\* dt = 1/365 and the annualisation by 365 are the source's.
NSimulations == 2
DaysPerYear == 2

Days(years_ahead) == years_ahead * DaysPerYear

\* annual_trend = np.clip(trend / current_price * 365, -0.5, 0.3), micro; trend in
\* micro, current_price in milli.  0 / 0 is nan.
AnnualTrend(trend, current_price) ==
    IF trend = NaN \/ current_price = 0 THEN NaN
    ELSE LET q == (trend * MILLI) \div current_price
             r == (trend * MILLI) % current_price
         IN  Clip(q * 365 + (r * 365) \div current_price, -500000, 300000)

\* drift = annual_trend * dt
Drift(trend, current_price) ==
    LET annual_trend == AnnualTrend(trend, current_price)
    IN  IF annual_trend = NaN THEN NaN ELSE annual_trend \div 365

\* diffusion = volatility * np.sqrt(dt), micro, for a volatility in basis points.
SqrtDt == 52342
Diffusion(volatility) ==
    IF volatility = NaN THEN NaN ELSE FMul6(volatility, SqrtDt * (MICRO \div BASIS))

\* A cap that halves each year.
MaxReasonableHalved(current_price, years_ahead) ==
    FMul6(current_price, FPow6(500000, years_ahead))

\* max_reasonable = current_price * (1.5 ** years_ahead)
MaxReasonable(current_price, years_ahead) == FMul6(current_price, FPow6(1500000, years_ahead))

\* The arguments (micro) beyond which np.exp of a float64 is inf, and 0.0.
ExpOverflow == 709782712
ExpUnderflow == -745133219

\* One pass of the inner loop, lines 102-107: the next value of the path, for a
\* path that is not negative.  min(nan, max_reasonable) is nan; a positive value
\* times inf is inf, which the cap replaces; 0.0 * inf is nan.
GbmStep(previous, drift, diffusion, shock, max_reasonable) ==
    IF previous = NaN \/ drift = NaN \/ diffusion = NaN THEN NaN
    ELSE LET exponent == drift + FMul6(diffusion, shock)
         IN  IF exponent > ExpOverflow
             THEN IF previous = 0 THEN NaN ELSE max_reasonable
             ELSE IF exponent < ExpUnderflow THEN 0
             ELSE Min(FMul6(previous, Exp6(exponent)), max_reasonable)

\* np.random.normal(0, 1) on numpy's global generator.  The generator's state is a
\* register of RngBits bits stepped by a full-period congruence; a draw reads the
\* high bit and steps the register.
RngBits == 2
ShockOf(state) == IF state < 2^(RngBits - 1) THEN -1200000 ELSE 900000
Advance(state) == (5 * state + 3) % 2^RngBits

\* The first n shocks a generator in `state` yields.
RECURSIVE Stream(_, _)
Stream(state, n) ==
    IF n = 0 THEN <<>> ELSE <<ShockOf(state)>> \o Stream(Advance(state), n - 1)

RECURSIVE Insert(_, _)
Insert(x, sorted) ==
    IF sorted = <<>> THEN <<x>>
    ELSE IF x <= Head(sorted) THEN <<x>> \o sorted
    ELSE <<Head(sorted)>> \o Insert(x, Tail(sorted))

RECURSIVE Sort(_)
Sort(xs) == IF xs = <<>> THEN <<>> ELSE Insert(Head(xs), Sort(Tail(xs)))

HasNaN(xs) == \E k \in 1..Len(xs) : xs[k] = NaN

\* The percentile read from the top of the sample: the rank of 100 - q.
PercentileFromTop(xs, q) ==
    IF HasNaN(xs) THEN NaN
    ELSE LET sorted == Sort(xs)
             pos == (100 - q) * (Len(xs) - 1)
             lo == pos \div 100 + 1
             frac == pos % 100
         IN  IF frac = 0 THEN sorted[lo]
             ELSE sorted[lo] + ((sorted[lo + 1] - sorted[lo]) * frac) \div 100

\* np.percentile(xs, q): linear interpolation between the two nearest ranks.
Percentile(xs, q) ==
    IF HasNaN(xs) THEN NaN
    ELSE LET sorted == Sort(xs)
             pos == q * (Len(xs) - 1)
             lo == pos \div 100 + 1
             frac == pos % 100
         IN  IF frac = 0 THEN sorted[lo]
             ELSE sorted[lo] + ((sorted[lo + 1] - sorted[lo]) * frac) \div 100

\* (a - b) / current_price, micro; nan when a term is, or over 0.
RelativeTo(diff, current_price) ==
    IF diff = NaN \/ current_price = 0 THEN NaN ELSE FDiv6(diff, current_price)

Sub(a, b) == IF a = NaN \/ b = NaN THEN NaN ELSE a - b

\* Comparisons of floats: one with nan is False.
Gt(a, b) == a # NaN /\ b # NaN /\ a > b
Ge(a, b) == a # NaN /\ b # NaN /\ a >= b

\* x * 100 of a micro ratio, as milli-percent.
Pct(x) == IF x = NaN THEN NaN ELSE x \div 10

\* predict_with_advanced_time_series, lines 217-229: fewer than two observations.
InsufficientData(history) ==
    LET current_price ==
            IF history # <<>> THEN Get(history[Len(history)], "price", 0) ELSE 100 * MILLI
    IN  [base_prediction |-> current_price,
         conservative |-> (current_price * 8) \div 10,
         moderate |-> current_price,
         aggressive |-> (current_price * 13) \div 10,
         confidence_lower |-> (current_price * 6) \div 10,
         confidence_upper |-> (current_price * 15) \div 10,
         risk_level |-> "high",
         volatility |-> 0]

\* monte_carlo_simulation, lines 109-114, and predict_with_advanced_time_series,
\* lines 270-304: the result of the time-series side from the terminal prices.
TimeSeriesResult(setup, final_prices) ==
    LET current_price == setup.current_price
        mean_price == IF HasNaN(final_prices) THEN NaN ELSE Mean(final_prices)
        mc_lower == Percentile(final_prices, 10)
        mc_upper == Percentile(final_prices, 90)
        downside_risk == RelativeTo(Sub(current_price, mc_lower), current_price)
        upside_potential == RelativeTo(Sub(mc_upper, current_price), current_price)
        risk_level ==
            IF Gt(downside_risk, 300000) THEN "high"
            ELSE IF Gt(downside_risk, 150000) THEN "moderate"
            ELSE "low"
    IN  [base_prediction |-> mean_price,
         conservative |-> Percentile(final_prices, 25),
         moderate |-> Percentile(final_prices, 50),
         aggressive |-> Percentile(final_prices, 75),
         confidence_lower |-> mc_lower,
         confidence_upper |-> mc_upper,
         risk_level |-> risk_level,
         volatility |-> setup.volatility,
         downside_risk_pct |-> Pct(downside_risk),
         upside_potential_pct |-> Pct(upside_potential),
         sentiment_multiplier |-> setup.sentiment_multiplier,
         current_trend |-> setup.trend]

(***************************************************************************)
(* predictor.py: predict_hybrid                                            *)
(***************************************************************************)

\* The two terms weighted evenly, whatever the weights asked for.
BlendEven(a, wa, b, wb) == IF a = NaN THEN NaN ELSE (a * 50 + b * 50) \div 100

\* The feature estimate taken off the simulated term, where the source adds it.
BlendAgainst(a, wa, b, wb) == IF a = NaN THEN NaN ELSE (a * wa - b * wb) \div 100

\* a * wa + b * wb for weights in percent; nan when the simulated term is.
Blend(a, wa, b, wb) == IF a = NaN THEN NaN ELSE (a * wa + b * wb) \div 100

\* What a call that raised leaves its caller: the exception and no result.
Raised(exception, years_ahead) ==
    [exception |-> exception, predicted_price |-> None, confidence_lower |-> None,
     confidence_upper |-> None, conservative |-> None, moderate |-> None,
     aggressive |-> None, risk_level |-> "", volatility |-> None,
     downside_risk_pct |-> None, upside_potential_pct |-> None,
     reward_risk_ratio |-> None, recommendation |-> "", years_ahead |-> years_ahead,
     time_series_prediction |-> None, feature_prediction |-> None,
     sentiment_multiplier |-> None, current_trend |-> None]

\* The table without its guards on the risk level.
RecommendationAnyRisk(reward_risk_ratio, risk_level) ==
    IF Gt(reward_risk_ratio, 2500000) THEN "strong_buy"
    ELSE IF Gt(reward_risk_ratio, 1500000) THEN "buy"
    ELSE IF Gt(reward_risk_ratio, 1000000) THEN "hold"
    ELSE IF Gt(reward_risk_ratio, 500000) THEN "consider_selling"
    ELSE "sell"

\* The recommendation table, lines 418-427; ratio in micro.
Recommendation(reward_risk_ratio, risk_level) ==
    IF Gt(reward_risk_ratio, 2500000) /\ risk_level = "low" THEN "strong_buy"
    ELSE IF Gt(reward_risk_ratio, 1500000) /\ risk_level # "high" THEN "buy"
    ELSE IF Gt(reward_risk_ratio, 1000000) THEN "hold"
    ELSE IF Gt(reward_risk_ratio, 500000) THEN "consider_selling"
    ELSE "sell"

\* predict_hybrid, lines 395-468, from the result of the time-series side: the
\* returned dict, or the KeyError of a ts_result that lacks a key it reads.
predict_hybrid(ts_result, history, f, years_ahead) ==
    LET feature_price == predict_with_features(f, years_ahead)
        deep == Len(history) >= 12
        final_price ==
            IF deep THEN Blend(ts_result.moderate, 75, feature_price, 25)
            ELSE Blend(ts_result.moderate, 50, feature_price, 50)
        conservative ==
            IF deep THEN Blend(ts_result.conservative, 75, (feature_price * 8) \div 10, 25)
            ELSE Blend(ts_result.conservative, 50, (feature_price * 85) \div 100, 50)
        aggressive ==
            IF deep THEN Blend(ts_result.aggressive, 75, (feature_price * 12) \div 10, 25)
            ELSE Blend(ts_result.aggressive, 50, (feature_price * 115) \div 100, 50)
    IN  IF "upside_potential_pct" \notin DOMAIN ts_result \/ "downside_risk_pct" \notin DOMAIN ts_result
        THEN Raised("KeyError", years_ahead)
        ELSE LET upside == ts_result.upside_potential_pct
                 downside == ts_result.downside_risk_pct
                 \* upside / max(downside, 1); max(nan, 1) is nan
                 reward_risk_ratio ==
                     IF upside = NaN \/ downside = NaN THEN NaN
                     ELSE FDiv6(upside, Max(downside, 1 * MILLI))
             IN  [exception |-> "",
                  predicted_price |-> round2m(final_price),
                  confidence_lower |-> round2m(ts_result.confidence_lower),
                  confidence_upper |-> round2m(ts_result.confidence_upper),
                  conservative |-> round2m(conservative),
                  moderate |-> round2m(final_price),
                  aggressive |-> round2m(aggressive),
                  risk_level |-> ts_result.risk_level,
                  volatility |-> round3b(ts_result.volatility),
                  downside_risk_pct |-> round2m(downside),
                  upside_potential_pct |-> round2m(upside),
                  reward_risk_ratio |-> IF reward_risk_ratio = NaN THEN NaN
                                        ELSE round2(reward_risk_ratio),
                  recommendation |-> Recommendation(reward_risk_ratio, ts_result.risk_level),
                  years_ahead |-> years_ahead,
                  time_series_prediction |-> round2m(ts_result.moderate),
                  feature_prediction |-> round2m(feature_price),
                  sentiment_multiplier |-> round3(ts_result.sentiment_multiplier),
                  current_trend |-> round2(ts_result.current_trend)]

(***************************************************************************)
(* The invocations of predictor.predict_hybrid on the module's singleton   *)
(***************************************************************************)

CallIds == {1, 2}

\* The horizons asked for.
MaxYears == 2
Years == 1..MaxYears

NoSetup ==
    [y |-> <<>>, level |-> 0, trend |-> 0, volatility |-> 0, current_price |-> 0,
     sentiment_multiplier |-> 0, adjusted_trend |-> 0]

\* A frame before its call: pc is the call's position; drift, diffusion, i and t
\* are the locals of monte_carlo_simulation, path is simulations[i, t - 1], draws
\* the shocks the call has drawn.
IdleFrame ==
    [pc |-> "idle", years_ahead |-> 0, setup |-> NoSetup, drift |-> 0, diffusion |-> 0,
     i |-> 0, t |-> 0, path |-> 0, final_prices |-> <<>>, draws |-> <<>>,
     ts_result |-> <<>>, outcome |-> Raised("", 0)]

Finished(frame) == frame.pc \in {"returned", "raised"}

\* The frame of a call that has its ts_result: predict_hybrid's lines 395-468.
Conclude(frame, ts_result, years_ahead) ==
    LET outcome == predict_hybrid(ts_result, price_history, features, years_ahead)
    IN  [frame EXCEPT !.pc = IF outcome.exception = "" THEN "returned" ELSE "raised",
                      !.years_ahead = years_ahead,
                      !.ts_result = ts_result,
                      !.outcome = outcome]

\* The caller's list with its records put in ascending order of timestamp.
AfterPrepareSorted(history) ==
    [k \in 1..Len(history) |-> history[CHOOSE j \in 1..Len(history) : history[j].date = k]]

\* The caller's list once prepare_time_series_data has gone through it, lines
\* 125-137: the loop reads each record and appends to lists of its own.
AfterPrepare(history) == history

\* PricePredictor(): the attributes __init__ sets, lines 21-24.  Neither model is
\* fitted, and no method of the class assigns an attribute.
PricePredictor ==
    [time_model |-> "unfitted", feature_model |-> "unfitted", is_trained |-> FALSE]

\* predict_hybrid(price_history, features, years_ahead) is called: lines 389-393
\* and predict_with_advanced_time_series up to the simulation's loop.  With
\* `overlap` a call may start while another runs (a second thread).
Invoke(c, years_ahead, overlap) ==
    /\ calls[c].pc = "idle"
    /\ \A d \in CallIds : d < c => calls[d].pc # "idle"
    /\ overlap \/ \A d \in CallIds : d # c => calls[d].pc = "idle" \/ Finished(calls[d])
    /\ LET data == prepare_time_series_data(price_history, TRUE)
       IN  IF Len(data.y) < 2
           THEN calls' = [calls EXCEPT ![c] =
                    Conclude(calls[c], InsufficientData(price_history), years_ahead)]
           ELSE LET setup == TimeSeriesSetup(price_history, features)
                IN  calls' = [calls EXCEPT ![c] =
                        [calls[c] EXCEPT !.pc = "simulating",
                                         !.years_ahead = years_ahead,
                                         !.setup = setup,
                                         !.drift = Drift(setup.adjusted_trend,
                                                         setup.current_price),
                                         !.diffusion = Diffusion(setup.volatility),
                                         !.i = 1,
                                         !.t = 1,
                                         !.path = setup.current_price]]
    /\ invoked' = Append(invoked, years_ahead)
    /\ price_history' = AfterPrepare(price_history)
    /\ UNCHANGED <<features, rating, fprice, seed, rng, multiplier, timeline, smoothing,
                   preferred, predictor>>

\* The frame after one pass of the inner loop of monte_carlo_simulation, lines
\* 100-107, in which np.random.normal returned `shock`: the path advances by a day.
Pass(frame, shock) ==
    LET setup == frame.setup
        value == GbmStep(frame.path, frame.drift, frame.diffusion, shock,
                         MaxReasonable(setup.current_price, frame.years_ahead))
        last_day == frame.t = Days(frame.years_ahead) - 1
        last_path == frame.i = NSimulations
    IN  [frame EXCEPT
            !.path = IF last_day THEN setup.current_price ELSE value,
            !.t = IF last_day THEN 1 ELSE frame.t + 1,
            !.i = IF last_day THEN frame.i + 1 ELSE frame.i,
            !.final_prices = IF last_day THEN Append(frame.final_prices, value)
                             ELSE frame.final_prices,
            !.pc = IF last_day /\ last_path THEN "simulated" ELSE "simulating"]

\* One pass of the inner loop of monte_carlo_simulation, lines 100-107: a shock is
\* drawn from the global generator and the path advances by a day.
Simulate(c) ==
    LET frame == calls[c]
        shock == ShockOf(rng)
    IN  /\ frame.pc = "simulating"
        /\ rng' = Advance(rng)
        /\ calls' = [calls EXCEPT ![c] =
               [Pass(frame, shock) EXCEPT !.draws = Append(frame.draws, shock)]]
        /\ UNCHANGED <<features, rating, fprice, price_history, seed, multiplier, invoked,
                       timeline, smoothing, preferred, predictor>>

\* The values np.random.normal(0, 1) returns in the model.
Shocks == {ShockOf(state) : state \in 0..(2^RngBits - 1)}

\* One pass of the inner loop whatever state the generator is in: the shock is any
\* value the generator can return.
SimulateAny(c) ==
    /\ calls[c].pc = "simulating"
    /\ \E shock \in Shocks : calls' = [calls EXCEPT ![c] = Pass(calls[c], shock)]
    /\ UNCHANGED <<features, rating, fprice, price_history, seed, rng, multiplier, invoked,
                   timeline, smoothing, preferred, predictor>>

\* The loops are over: lines 109-114, 270-304 and predict_hybrid's lines 395-468.
Return(c) ==
    /\ calls[c].pc = "simulated"
    /\ calls' = [calls EXCEPT ![c] =
           Conclude(calls[c], TimeSeriesResult(calls[c].setup, calls[c].final_prices),
                    calls[c].years_ahead)]
    /\ UNCHANGED <<features, rating, fprice, price_history, seed, rng, multiplier, invoked,
                   timeline, smoothing, preferred, predictor>>

\* The feature vectors of the prediction requests.
NoFeatures == [k \in {} |-> None]
AbsentFeatures == [k \in DOMAIN DocumentedDefaults |-> None]
StrongFeatures ==
    [current_price |-> 500 * MILLI, rarity_score |-> 6 * MILLI,
     popularity_score |-> 80 * MILLI, artist_score |-> 7 * MILLI, trend_30d |-> 5 * MILLI,
     trend_90d |-> 15 * MILLI, trend_1y |-> 25 * MILLI, volatility |-> 15 * MILLI,
     market_sentiment |-> 60 * MILLI]
WeakFeatures ==
    [current_price |-> 20 * MILLI, rarity_score |-> 1 * MILLI,
     popularity_score |-> 10 * MILLI, artist_score |-> 2 * MILLI, trend_30d |-> -12 * MILLI,
     trend_90d |-> -15 * MILLI, trend_1y |-> -20 * MILLI, volatility |-> 40 * MILLI,
     market_sentiment |-> 20 * MILLI]
RequestFeatures ==
    {NoFeatures, AbsentFeatures, DocumentedDefaults, StrongFeatures, WeakFeatures}

\* The price histories: up to MaxLen observations, one a day, each price one of
\* ObservedPrices (milli), listed oldest first or newest first.
MaxLen == 3
ObservedPrices == {0, 100 * MILLI, 110 * MILLI}
Observations(prices, newest_first) ==
    [k \in 1..Len(prices) |->
        [date |-> IF newest_first THEN Len(prices) + 1 - k ELSE k, price |-> prices[k]]]
Histories ==
    {Observations(prices, newest_first) :
        prices \in UNION {[1..n -> ObservedPrices] : n \in 0..MaxLen},
        newest_first \in BOOLEAN}

\* generate_prediction_timeline before it is called: year is the loop variable and
\* entries the list it builds.
NoTimeline == [pc |-> "idle", max_years |-> 0, year |-> 0, entries |-> <<>>]

Init ==
    /\ features \in RequestFeatures
    /\ price_history \in Histories
    /\ seed \in 0..(2^RngBits - 1)
    /\ rng = seed
    /\ calls = [c \in CallIds |-> IdleFrame]
    /\ rating = <<>>
    /\ fprice = <<>>
    /\ multiplier = <<>>
    /\ invoked = <<>>
    /\ timeline = NoTimeline
    /\ smoothing = <<>>
    /\ preferred = <<>>
    /\ predictor = PricePredictor

\* One prediction request.
Next ==
    \/ \E years_ahead \in Years : Invoke(1, years_ahead, FALSE)
    \/ Simulate(1)
    \/ Return(1)

Spec == Init /\ [][Next]_vars

\* Two requests for one card.
InitTwo == Init /\ features \in {NoFeatures, DocumentedDefaults}

\* Two requests served one after the other (the endpoints are coroutines that call
\* the predictor without awaiting).
NextRepeat ==
    \/ \E c \in CallIds, years_ahead \in Years : Invoke(c, years_ahead, FALSE)
    \/ \E c \in CallIds : Simulate(c)
    \/ \E c \in CallIds : Return(c)

SpecRepeat == InitTwo /\ [][NextRepeat]_vars

\* The predictor is called from two threads at once.
NextThreads ==
    \/ \E c \in CallIds, years_ahead \in Years : Invoke(c, years_ahead, TRUE)
    \/ \E c \in CallIds : Simulate(c)
    \/ \E c \in CallIds : Return(c)

SpecThreads == InitTwo /\ [][NextThreads]_vars

\* Histories of a card whose price swings, oldest first (units of currency).
SwingPrices == {<<100, 110>>, <<100, 110, 100>>, <<100, 150, 100>>, <<150, 100, 100>>}
SwingHistories ==
    {Observations([k \in 1..Len(prices) |-> prices[k] * MILLI], FALSE) :
        prices \in SwingPrices}

InitShocks ==
    /\ features \in {DocumentedDefaults, StrongFeatures}
    /\ price_history \in SwingHistories
    /\ seed = 0
    /\ rng = seed
    /\ calls = [c \in CallIds |-> IdleFrame]
    /\ rating = <<>>
    /\ fprice = <<>>
    /\ multiplier = <<>>
    /\ invoked = <<>>
    /\ timeline = NoTimeline
    /\ smoothing = <<>>
    /\ preferred = <<>>
    /\ predictor = PricePredictor

\* One prediction request whose shocks are any the generator can return.
NextShocks ==
    \/ \E years_ahead \in Years : Invoke(1, years_ahead, FALSE)
    \/ SimulateAny(1)
    \/ Return(1)

SpecShocks == InitShocks /\ [][NextShocks]_vars

\* Histories around a year of monthly observations, oldest first: the price
\* alternates between two levels (units of currency).
DeepLevels == {<<100, 100>>, <<100, 110>>, <<110, 100>>}
DeepHistories ==
    {Observations([k \in 1..n |-> levels[2 - (k % 2)] * MILLI], FALSE) :
        n \in 11..13, levels \in DeepLevels}

InitDeep ==
    /\ features \in RequestFeatures
    /\ price_history \in DeepHistories
    /\ seed \in 0..(2^RngBits - 1)
    /\ rng = seed
    /\ calls = [c \in CallIds |-> IdleFrame]
    /\ rating = <<>>
    /\ fprice = <<>>
    /\ multiplier = <<>>
    /\ invoked = <<>>
    /\ timeline = NoTimeline
    /\ smoothing = <<>>
    /\ preferred = <<>>
    /\ predictor = PricePredictor

\* One prediction request on a history around a year deep.
SpecDeep == InitDeep /\ [][Next]_vars

\* Histories whose volatility estimate is 0 (units of currency), oldest first:
\* every pair of FlatLevels, a price that drops to 0, and one price repeated over
\* 2 to MaxLen observations and over a year of them.
FlatLevels == {100, 110, 150}
YearOfMonths == 12
FlatPrices ==
    [1..2 -> FlatLevels]
        \cup {<<100, 0>>}
        \cup {[k \in 1..n |-> c] : n \in (2..MaxLen) \cup {YearOfMonths}, c \in FlatLevels}
FlatHistories ==
    {Observations([k \in 1..Len(prices) |-> prices[k] * MILLI], FALSE) :
        prices \in FlatPrices}

InitFlat ==
    /\ features \in RequestFeatures
    /\ price_history \in FlatHistories
    /\ seed = 0
    /\ rng = seed
    /\ calls = [c \in CallIds |-> IdleFrame]
    /\ rating = <<>>
    /\ fprice = <<>>
    /\ multiplier = <<>>
    /\ invoked = <<>>
    /\ timeline = NoTimeline
    /\ smoothing = <<>>
    /\ preferred = <<>>
    /\ predictor = PricePredictor

\* One prediction request on a history without volatility, whatever shocks the
\* generator returns.
SpecFlat == InitFlat /\ [][NextShocks]_vars

\* Histories of a card listed at a cent whose price spikes to 20.00 (milli),
\* oldest first.
SpikePrices == {<<10, 20000, 10>>, <<10, 20000, 20000>>, <<20000, 10, 20000>>}
SpikeHistories == {Observations(prices, FALSE) : prices \in SpikePrices}

InitSpike ==
    /\ features \in RequestFeatures
    /\ price_history \in SpikeHistories
    /\ seed \in 0..(2^RngBits - 1)
    /\ rng = seed
    /\ calls = [c \in CallIds |-> IdleFrame]
    /\ rating = <<>>
    /\ fprice = <<>>
    /\ multiplier = <<>>
    /\ invoked = <<>>
    /\ timeline = NoTimeline
    /\ smoothing = <<>>
    /\ preferred = <<>>
    /\ predictor = PricePredictor

\* One prediction request on a history with a spike.
SpecSpike == InitSpike /\ [][Next]_vars

(***************************************************************************)
(* The two feature-vector entry points, applied to one feature vector.     *)
(***************************************************************************)

\* The values a field takes: absent (None) and values across its documented range
\* (in milli), below, inside and above the bands the scorer distinguishes.
PriceValues == {None, 23600, 36000, 886700}
RarityValues == {None, 0, 900, 9100}
PopularityValues == {None, 3200, 94400}
ArtistValues == {None, 2500, 9200}
Trend30Values == {None, -12100, 26400}
Trend90Values == {None, -15500, 30500}
Trend1yValues == {None, -28700, 5400, 42100}
VolatilityValues == {None, 3400, 39300}
SentimentValues == {None, 11000, 91700}

FeatureVectors ==
    [current_price : PriceValues, rarity_score : RarityValues,
     popularity_score : PopularityValues, artist_score : ArtistValues,
     trend_30d : Trend30Values, trend_90d : Trend90Values, trend_1y : Trend1yValues,
     volatility : VolatilityValues, market_sentiment : SentimentValues]

InitFeat ==
    /\ features \in FeatureVectors
    /\ rating = <<>>
    /\ fprice = <<>>
    /\ multiplier = <<>>
    /\ invoked = <<>>
    /\ timeline = NoTimeline
    /\ smoothing = <<>>
    /\ preferred = <<>>
    /\ predictor = PricePredictor
    /\ price_history = <<>>
    /\ seed = 0
    /\ rng = 0
    /\ calls = [c \in CallIds |-> IdleFrame]

\* feature_service.calculate_investment_score(**features)
Score ==
    /\ rating = <<>>
    /\ rating' = calculate_investment_score(features)
    /\ UNCHANGED <<features, fprice, price_history, seed, rng, calls, multiplier, invoked,
                   timeline, smoothing, preferred, predictor>>

\* predictor.predict_with_features(features, years_ahead)
FeaturePredict(years_ahead) ==
    /\ fprice = <<>>
    /\ fprice' = <<years_ahead, predict_with_features(features, years_ahead)>>
    /\ UNCHANGED <<features, rating, price_history, seed, rng, calls, multiplier, invoked,
                   timeline, smoothing, preferred, predictor>>

NextFeat ==
    \/ Score
    \/ \E years_ahead \in Years : FeaturePredict(years_ahead)

SpecFeat == InitFeat /\ [][NextFeat]_vars

(***************************************************************************)
(* Properties                                                              *)
(***************************************************************************)

\* C1: a call of predict_hybrid on a history of fewer than two observations returns
\* to its caller, raising nothing, and the result's risk_level is "high".
C1_ShortHistoryReturnsHighRisk ==
    \A c \in CallIds :
        (Finished(calls[c]) /\ Len(price_history) < 2) =>
            (calls[c].pc = "returned" /\ calls[c].outcome.risk_level = "high")

\* C2: every score calculate_investment_score returns lies in [1, 10].
C2_ScoreInRange ==
    rating # <<>> => (1 * MICRO <= rating[1] /\ rating[1] <= 10 * MICRO)

\* A vector whose falling year and high volatility put the raw score under 1 has
\* been scored, and the score handed back is the lower end of the range.
C2_Witness ==
    /\ rating # <<>>
    /\ rating[1] = 1 * MICRO
    /\ features.trend_1y = -28700
    /\ features.volatility = 39300

\* C3: the label calculate_investment_score returns is the one the thresholds give
\* the 2-decimal score it returns.
C3_LabelMatchesReturnedScore ==
    rating # <<>> => rating[2] = RatingOf(rating[1])

\* C4: in every result predict_hybrid returns, confidence_upper >= confidence_lower
\* and both are >= 0.
C4_ConfidenceBandOrdered ==
    \A c \in CallIds :
        calls[c].pc = "returned" =>
            /\ Ge(calls[c].outcome.confidence_upper, calls[c].outcome.confidence_lower)
            /\ Ge(calls[c].outcome.confidence_lower, 0)
            /\ Ge(calls[c].outcome.confidence_upper, 0)

\* The percentile outputs of the simulation behind a call.
Percentiles(frame) ==
    [k \in {"confidence_lower", "confidence_upper", "conservative", "moderate",
            "aggressive"} |-> frame.ts_result[k]]

\* C5: under one seed, two calls of predict_hybrid with the same history, features
\* and years_ahead have the same percentile outputs.
C5_RepeatedCallSamePercentiles ==
    \A c, d \in CallIds :
        (/\ calls[c].pc = "returned"
         /\ calls[d].pc = "returned"
         /\ calls[c].years_ahead = calls[d].years_ahead) =>
            Percentiles(calls[c]) = Percentiles(calls[d])

\* C6: the shocks a call consumes are a run of a generator of its own, whatever
\* the call running beside it does.
C6_ShocksFromOwnSource ==
    \A c \in CallIds :
        \E state \in 0..(2^RngBits - 1) :
            calls[c].draws = Stream(state, Len(calls[c].draws))

\* The numeric fields of predict_hybrid's result.
NumericOutputs ==
    {"predicted_price", "confidence_lower", "confidence_upper", "conservative",
     "moderate", "aggressive", "volatility", "downside_risk_pct",
     "upside_potential_pct", "reward_risk_ratio", "time_series_prediction",
     "feature_prediction", "sentiment_multiplier", "current_trend"}

\* C7: on a history of two or more observations with a price of 0, every numeric
\* field of predict_hybrid's result is finite.
C7_ZeroPriceOutputsFinite ==
    \A c \in CallIds :
        (/\ calls[c].pc = "returned"
         /\ Len(price_history) >= 2
         /\ \E k \in 1..Len(price_history) : price_history[k].price = 0) =>
            \A field \in NumericOutputs : calls[c].outcome[field] # NaN

\* The vector with the documented default in place of every absent field.
WithDefaults(f) == [k \in DOMAIN f |-> IF f[k] = None THEN DocumentedDefaults[k] ELSE f[k]]

\* C8: both entry points compute on a vector with absent fields what they compute
\* on the vector with the documented defaults filled in; a present 0 stays 0.
C8_AbsentFieldsUseDocumentedDefaults ==
    /\ rating # <<>> => rating = calculate_investment_score(WithDefaults(features))
    /\ fprice # <<>> =>
          fprice[2] = predict_with_features(WithDefaults(features), fprice[1])

\* C9: on the single observation {price: 100}, the default features and
\* years_ahead = 1, predict_hybrid returns predicted_price in [70, 100] and
\* risk_level "high".
C9_SingleObservationScenario ==
    \A c \in CallIds :
        (/\ Finished(calls[c])
         /\ price_history = Observations(<<100 * MILLI>>, FALSE)
         /\ features = DocumentedDefaults
         /\ calls[c].years_ahead = 1) =>
            /\ calls[c].pc = "returned"
            /\ calls[c].outcome.risk_level = "high"
            /\ 70 * MILLI <= calls[c].outcome.predicted_price
            /\ calls[c].outcome.predicted_price <= 100 * MILLI

\* The prices of a history in ascending order of timestamp.
ByTimestamp(history) ==
    [k \in 1..Len(history) |->
        history[CHOOSE j \in 1..Len(history) : history[j].date = k].price]

\* C10: the price series prepare_time_series_data hands the smoother is in
\* ascending order of timestamp, whatever the order of the input list.
C10_SeriesAscendingByTimestamp ==
    \A c \in CallIds :
        (calls[c].pc # "idle" /\ Len(price_history) >= 2) =>
            calls[c].setup.y = ByTimestamp(price_history)

\* upside_pct / max(downside_pct, 1) of a time-series result, micro.
RewardRisk(ts_result) ==
    IF ts_result.upside_potential_pct = NaN \/ ts_result.downside_risk_pct = NaN THEN NaN
    ELSE FDiv6(ts_result.upside_potential_pct, Max(ts_result.downside_risk_pct, 1 * MILLI))

\* C11: the recommendation of every result is the first row of the decision table
\* that its ratio and risk level match; strong_buy comes only with low risk and a
\* high-risk result is neither buy nor strong_buy.
C11_RecommendationFollowsTable ==
    \A c \in CallIds :
        calls[c].pc = "returned" =>
            LET ratio == RewardRisk(calls[c].ts_result)
                risk == calls[c].outcome.risk_level
                recommendation == calls[c].outcome.recommendation
                strong_buy == Gt(ratio, 2500000) /\ risk = "low"
                buy == ~strong_buy /\ Gt(ratio, 1500000) /\ risk # "high"
                hold == ~strong_buy /\ ~buy /\ Gt(ratio, 1000000)
                consider_selling == ~strong_buy /\ ~buy /\ ~hold /\ Gt(ratio, 500000)
            IN  /\ (recommendation = "strong_buy") <=> strong_buy
                /\ (recommendation = "buy") <=> buy
                /\ (recommendation = "hold") <=> hold
                /\ (recommendation = "consider_selling") <=> consider_selling
                /\ (recommendation = "sell") <=>
                       (~strong_buy /\ ~buy /\ ~hold /\ ~consider_selling)
                /\ recommendation = "strong_buy" => risk = "low"
                /\ risk = "high" => recommendation \notin {"buy", "strong_buy"}

\* A high-risk result whose ratio is over 1.5 has been returned as a hold.
C11_Witness ==
    \E c \in CallIds :
        /\ calls[c].pc = "returned"
        /\ calls[c].outcome.risk_level = "high"
        /\ Gt(RewardRisk(calls[c].ts_result), 1500000)
        /\ calls[c].outcome.recommendation = "hold"

\* a <= b on floats: False when either is nan.
Le(a, b) == a # NaN /\ b # NaN /\ a <= b

\* (current_price - p10) / current_price of a call that has simulated, micro.
Downside(frame) ==
    RelativeTo(Sub(frame.setup.current_price, frame.ts_result.confidence_lower),
               frame.setup.current_price)

\* C12: on a history of two or more observations the risk level is high iff the
\* downside is over 0.30, moderate iff it is over 0.15 and at most 0.30, and low
\* iff it is at most 0.15.
C12_RiskLevelByDownside ==
    \A c \in CallIds :
        (calls[c].pc = "returned" /\ Len(price_history) >= 2) =>
            LET downside == Downside(calls[c])
                risk == calls[c].outcome.risk_level
            IN  /\ (risk = "high") <=> Gt(downside, 300000)
                /\ (risk = "moderate") <=> (Gt(downside, 150000) /\ Le(downside, 300000))
                /\ (risk = "low") <=> Le(downside, 150000)

\* wt% of the simulated percentile t plus the rest of scale% of the feature
\* estimate f (milli); nan when t is.
Weighted(t, wt, f, scale) ==
    IF t = NaN THEN NaN ELSE (t * wt + ((f * scale) \div 100) * (100 - wt)) \div 100

\* C13: with 12 or more observations the scenarios are 0.75 of the simulated
\* percentile plus 0.25 of the feature estimate (scaled by 1, 0.8, 1.2); with fewer
\* they are 0.5 of each (scaled by 1, 0.85, 1.15).
C13_BlendByDepth ==
    \A c \in CallIds :
        calls[c].pc = "returned" =>
            LET t == calls[c].ts_result
                f == predict_with_features(features, calls[c].years_ahead)
                deep == Len(price_history) >= 12
                wt == IF deep THEN 75 ELSE 50
            IN  /\ calls[c].outcome.moderate = round2m(Weighted(t.moderate, wt, f, 100))
                /\ calls[c].outcome.predicted_price = calls[c].outcome.moderate
                /\ calls[c].outcome.conservative =
                       round2m(Weighted(t.conservative, wt, f, IF deep THEN 80 ELSE 85))
                /\ calls[c].outcome.aggressive =
                       round2m(Weighted(t.aggressive, wt, f, IF deep THEN 120 ELSE 115))

\* A history of exactly 12 observations has been predicted, and its moderate
\* scenario is the 75/25 blend, which is not what the 50/50 blend gives.
C13_Witness ==
    \E c \in CallIds :
        /\ calls[c].pc = "returned"
        /\ Len(price_history) = 12
        /\ calls[c].ts_result.moderate # NaN
        /\ LET f == predict_with_features(features, calls[c].years_ahead)
           IN  /\ calls[c].outcome.moderate =
                      round2m(Weighted(calls[c].ts_result.moderate, 75, f, 100))
               /\ calls[c].outcome.moderate #
                      round2m(Weighted(calls[c].ts_result.moderate, 50, f, 100))

(***************************************************************************)
(* The sentiment multiplier on its own                                     *)
(***************************************************************************)

\* The arguments of calculate_sentiment_multiplier (milli): the ends and the middle
\* of the 0-100 scales, and trends on both sides of each band's edge.
PopularityArgs == {0, 25 * MILLI, 50 * MILLI, 100 * MILLI}
SentimentArgs == {0, 30 * MILLI, 50 * MILLI, 100 * MILLI}
TrendArgs ==
    {-50 * MILLI, -10001, -10 * MILLI, 0, 5 * MILLI, 5001, 20 * MILLI, 20001, 60 * MILLI}

InitSentiment ==
    /\ features \in {[DocumentedDefaults EXCEPT !.popularity_score = popularity,
                                                !.market_sentiment = sentiment,
                                                !.trend_1y = trend] :
                        popularity \in PopularityArgs, sentiment \in SentimentArgs,
                        trend \in TrendArgs}
    /\ rating = <<>>
    /\ fprice = <<>>
    /\ multiplier = <<>>
    /\ invoked = <<>>
    /\ timeline = NoTimeline
    /\ smoothing = <<>>
    /\ preferred = <<>>
    /\ predictor = PricePredictor
    /\ price_history = <<>>
    /\ seed = 0
    /\ rng = 0
    /\ calls = [c \in CallIds |-> IdleFrame]

\* predictor.calculate_sentiment_multiplier(popularity, sentiment, trend_1y)
SentimentMultiplier ==
    /\ multiplier = <<>>
    /\ multiplier' = <<calculate_sentiment_multiplier(
                           features.popularity_score, features.market_sentiment,
                           features.trend_1y)>>
    /\ UNCHANGED <<features, rating, fprice, price_history, seed, rng, calls, invoked,
                   timeline, smoothing, preferred, predictor>>

NextSentiment == SentimentMultiplier

SpecSentiment == InitSentiment /\ [][NextSentiment]_vars

\* The momentum term of the multiplier by band of trend_1y (milli), micro.
MomentumBand(trend_1y) ==
    CASE trend_1y > 20 * MILLI -> 100000
      [] trend_1y > 5 * MILLI /\ trend_1y <= 20 * MILLI -> 50000
      [] trend_1y < -10 * MILLI -> -100000
      [] OTHER -> 0

\* C14: calculate_sentiment_multiplier returns 1 + popularity/100 * 0.15 +
\* (sentiment - 50)/50 * 0.10 + the momentum term, clamped to [0.85, 1.25].
C14_SentimentMultiplierFormula ==
    multiplier # <<>> =>
        LET raw == MICRO + (features.popularity_score * 3) \div 2
                       + (features.market_sentiment - 50 * MILLI) * 2
                       + MomentumBand(features.trend_1y)
        IN  /\ multiplier[1] = (IF raw < 850000 THEN 850000
                                ELSE IF raw > 1250000 THEN 1250000 ELSE raw)
            /\ 850000 <= multiplier[1]
            /\ multiplier[1] <= 1250000

\* An unpopular card in a poor market with a falling year: the sum is 0.80 and the
\* multiplier returned is the lower end of the range.
C14_Witness ==
    /\ multiplier = <<850000>>
    /\ features.popularity_score = 0
    /\ features.market_sentiment = 0
    /\ features.trend_1y < -10 * MILLI

\* C15: with current_price > 0, every value of a simulated path, every terminal
\* value, their mean and confidence_upper are at most
\* current_price * 1.5^years_ahead.
C15_PathsUnderCap ==
    \A c \in CallIds :
        (calls[c].pc \in {"simulating", "simulated", "returned"}
            /\ calls[c].setup.current_price > 0) =>
            LET cap == MaxReasonable(calls[c].setup.current_price, calls[c].years_ahead)
            IN  /\ Le(calls[c].path, cap)
                /\ \A k \in 1..Len(calls[c].final_prices) : Le(calls[c].final_prices[k], cap)
                /\ calls[c].pc = "returned" =>
                       /\ Le(calls[c].ts_result.base_prediction, cap)
                       /\ Le(calls[c].ts_result.confidence_upper, cap)

\* C16: each simulated path applies as many daily steps as the horizon has days
\* (365 * years_ahead in the source), so a finished simulation has drawn that many
\* shocks for each of its paths.
C16_StepsPerPath ==
    \A c \in CallIds :
        (calls[c].pc \in {"simulated", "returned"} /\ Len(price_history) >= 2) =>
            Len(calls[c].draws) = NSimulations * Days(calls[c].years_ahead)

\* C17: the simulation starts from the volume-weighted mean of the last min(30, n)
\* prices when observations carry volumes, and from the last observed price (the
\* last of the list, or the latest by timestamp) when none does.
C17_CurrentPriceSource ==
    \A c \in CallIds :
        (calls[c].pc # "idle" /\ Len(price_history) >= 2) =>
            LET n == Len(price_history)
                current_price == calls[c].setup.current_price
            IN  IF \E k \in 1..n : "volume" \in DOMAIN price_history[k]
                THEN current_price =
                         calculate_volume_weighted_price(
                             LastN(calls[c].setup.y, Min(RecentWindow, n)),
                             LastN(prepare_time_series_data(price_history, TRUE).v,
                                   Min(RecentWindow, n)))
                ELSE \/ current_price = price_history[n].price
                     \/ current_price = ByTimestamp(price_history)[n]

\* trend / current_price * 365 before any clamp, micro; trend in micro and
\* current_price in milli.
RawAnnual(trend, current_price) ==
    LET q == (trend * MILLI) \div current_price
        r == (trend * MILLI) % current_price
    IN  q * 365 + (r * 365) \div current_price

\* C18: for current_price > 0 the trend handed to the simulation is
\* trend * sentiment_multiplier held within 0.001 * current_price either way, so
\* the annual rate is at least -0.365, the lower clamp -0.5 never binds, and the
\* drift is the rate capped at 0.3, per day.
C18_TrendClampBoundsDrift ==
    \A c \in CallIds :
        (calls[c].pc \in {"simulating", "simulated", "returned"}
            /\ calls[c].setup.current_price > 0) =>
            LET setup == calls[c].setup
                product == FMul6(setup.trend, setup.sentiment_multiplier)
                limit == setup.current_price
                raw == RawAnnual(setup.adjusted_trend, setup.current_price)
            IN  /\ setup.adjusted_trend =
                       (IF product < -limit THEN -limit
                        ELSE IF product > limit THEN limit ELSE product)
                /\ -365000 <= raw
                /\ AnnualTrend(setup.adjusted_trend, setup.current_price) =
                       (IF raw > 300000 THEN 300000 ELSE raw)
                /\ -365000 <= AnnualTrend(setup.adjusted_trend, setup.current_price)
                /\ AnnualTrend(setup.adjusted_trend, setup.current_price) <= 300000
                /\ calls[c].drift =
                       AnnualTrend(setup.adjusted_trend, setup.current_price) \div 365

\* A falling card: the smoothed trend times the multiplier is under the limit, the
\* trend handed on is -0.001 * current_price and the annual rate is -0.365.
C18_Witness ==
    \E c \in CallIds :
        /\ calls[c].pc = "simulating"
        /\ calls[c].setup.current_price > 0
        /\ FMul6(calls[c].setup.trend, calls[c].setup.sentiment_multiplier)
               < -calls[c].setup.current_price
        /\ calls[c].setup.adjusted_trend = -calls[c].setup.current_price
        /\ AnnualTrend(calls[c].setup.adjusted_trend, calls[c].setup.current_price) = -365000

\* The momentum term of the growth rate by band of trend_1y (milli), milli-percent.
GrowthMomentum(trend_1y) ==
    CASE trend_1y > 20 * MILLI -> 6 * MILLI
      [] trend_1y > 10 * MILLI /\ trend_1y <= 20 * MILLI -> 4 * MILLI
      [] trend_1y > 0 /\ trend_1y <= 10 * MILLI -> 2 * MILLI
      [] trend_1y > -10 * MILLI /\ trend_1y <= 0 -> 0
      [] OTHER -> -3 * MILLI

\* current_price * (1 + g * 0.95^(years_ahead - 1) / 100)^years_ahead for a vector
\* with every field present, milli.
CompoundedGrowth(f, years_ahead) ==
    LET g == 6 * MILLI + (f.rarity_score * 35) \div 100 + (f.popularity_score * 5) \div 100
                 + (f.artist_score * 2) \div 10 + GrowthMomentum(f.trend_1y)
                 + ((f.market_sentiment - 50 * MILLI) * 4) \div 50
                 + Min(f.volatility * 2, 2 * MILLI)
        rate == FMul6(g, FPow6(950000, years_ahead - 1))
    IN  FMul6(f.current_price, FPow6(MICRO + rate * 10, years_ahead))

\* C19: predict_with_features returns the price compounded at the decayed growth
\* rate that the fields of the vector give.
C19_FeatureGrowthFormula ==
    (fprice # <<>> /\ \A k \in DOMAIN features : features[k] # None) =>
        fprice[2] = CompoundedGrowth(features, fprice[1])

(***************************************************************************)
(* predictor.py: generate_prediction_timeline                              *)
(***************************************************************************)

\* The entry with the simulated median as its moderate scenario.
TimelineEntrySimulated(year, prediction) ==
    [years_ahead |-> year,
     predicted_price |-> prediction.predicted_price,
     conservative |-> prediction.conservative,
     moderate |-> prediction.time_series_prediction,
     aggressive |-> prediction.aggressive,
     confidence_lower |-> prediction.confidence_lower,
     confidence_upper |-> prediction.confidence_upper,
     risk_level |-> prediction.risk_level,
     recommendation |-> prediction.recommendation]

\* The entry the loop appends for `year`, lines 487-498 (target_date left out).
TimelineEntry(year, prediction) ==
    [years_ahead |-> year,
     predicted_price |-> prediction.predicted_price,
     conservative |-> prediction.conservative,
     moderate |-> prediction.moderate,
     aggressive |-> prediction.aggressive,
     confidence_lower |-> prediction.confidence_lower,
     confidence_upper |-> prediction.confidence_upper,
     risk_level |-> prediction.risk_level,
     recommendation |-> prediction.recommendation]

\* generate_prediction_timeline(price_history, features, max_years) is called:
\* lines 481-483, up to the first pass of the loop.
TimelineCall(max_years) ==
    /\ timeline.pc = "idle"
    /\ \A c \in CallIds : calls[c].pc = "idle"
    /\ timeline' = [pc |-> "looping", max_years |-> max_years, year |-> 1,
                    entries |-> <<>>]
    /\ UNCHANGED <<features, rating, fprice, price_history, seed, rng, calls, multiplier,
                   invoked, smoothing, preferred, predictor>>

\* Line 484: the loop calls predict_hybrid(price_history, features, year).
TimelinePredict ==
    /\ timeline.pc = "looping"
    /\ Invoke(1, timeline.year, FALSE)

\* predict_hybrid is back.  Lines 486-498 append the year's entry and the loop goes
\* on to the next year, or line 500 returns the list; an exception of predict_hybrid
\* leaves generate_prediction_timeline as it is raised.
TimelineAppend ==
    /\ timeline.pc = "looping"
    /\ Finished(calls[1])
    /\ IF calls[1].pc = "raised"
       THEN /\ timeline' = [timeline EXCEPT !.pc = "raised"]
            /\ UNCHANGED calls
       ELSE /\ timeline' =
                   [timeline EXCEPT
                       !.entries = Append(timeline.entries,
                                          TimelineEntry(timeline.year, calls[1].outcome)),
                       !.year = timeline.year + 1,
                       !.pc = IF timeline.year = timeline.max_years THEN "returned"
                              ELSE "looping"]
            /\ calls' = [calls EXCEPT ![1] = IdleFrame]
    /\ UNCHANGED <<features, rating, fprice, price_history, seed, rng, multiplier, invoked,
                   smoothing, preferred, predictor>>

NextTimeline ==
    \/ \E max_years \in Years : TimelineCall(max_years)
    \/ TimelinePredict
    \/ Simulate(1)
    \/ Return(1)
    \/ TimelineAppend

SpecTimeline == Init /\ [][NextTimeline]_vars

\* C20: generate_prediction_timeline calls predict_hybrid once for each year
\* 1, 2, ..., K in that order, and it returns K entries whose years_ahead are
\* 1, ..., K.
C20_TimelineOnePerYear ==
    timeline.pc # "idle" =>
        /\ invoked = [k \in 1..Len(invoked) |-> k]
        /\ Len(invoked) <= timeline.max_years
        /\ timeline.pc \in {"returned", "raised"} =>
               /\ timeline.pc = "returned"
               /\ Len(invoked) = timeline.max_years
               /\ Len(timeline.entries) = timeline.max_years
               /\ \A k \in 1..Len(timeline.entries) : timeline.entries[k].years_ahead = k

(***************************************************************************)
(* The smoother on its own                                                 *)
(***************************************************************************)

\* The smoothing parameters (micro): the ones predict_with_advanced_time_series
\* passes (line 233), the defaults of the signature (lines 29-30), and the ends of
\* the 0-1 scale.
SmoothingArgs ==
    {<<200000, 50000>>, <<300000, 100000>>, <<MICRO, MICRO>>, <<0, 0>>}

\* One card with the documented defaults: the history is what varies.
InitSmooth == Init /\ features = DocumentedDefaults /\ seed = 0

\* predictor.exponential_smoothing(y, alpha, beta) on the prices of the history.
Smooth(alpha, beta) ==
    /\ smoothing = <<>>
    /\ LET data == prepare_time_series_data(price_history, TRUE).y
           result == exponential_smoothing(data, alpha, beta)
       IN  smoothing' = <<[data |-> data, alpha |-> alpha, beta |-> beta,
                           smoothed |-> result.smoothed, level |-> result.level,
                           trend |-> result.trend]>>
    /\ UNCHANGED <<features, rating, fprice, price_history, seed, rng, calls, multiplier,
                   invoked, timeline, preferred, predictor>>

\* The smoother called directly, and one prediction request.
NextSmooth ==
    \/ \E args \in SmoothingArgs : Smooth(args[1], args[2])
    \/ Next

SpecSmooth == InitSmooth /\ [][NextSmooth]_vars

\* Level and trend after the first n prices of a series of two or more (micro):
\* prices[1] and prices[2] - prices[1] at n = 1, then one step per price.
RECURSIVE Holt(_, _, _, _)
Holt(prices, n, a, b) ==
    IF n = 1
    THEN [level |-> prices[1] * MILLI, trend |-> (prices[2] - prices[1]) * MILLI]
    ELSE LET before == Holt(prices, n - 1, a, b)
             level == FMul6(a, prices[n] * MILLI)
                          + FMul6(MICRO - a, before.level + before.trend)
         IN  [level |-> level,
              trend |-> FMul6(b, level - before.level) + FMul6(MICRO - b, before.trend)]

\* C21: on two or more prices exponential_smoothing starts from level = prices[0],
\* trend = prices[1] - prices[0] and steps once per later price, the trend update
\* using the level from before the step; on fewer it returns the data unchanged with
\* level = the last price (0 if empty) and trend = 0.  The hybrid predictor's trend
\* is the smoother's at alpha = 0.2, beta = 0.05.
C21_SmoothingRecurrence ==
    /\ smoothing # <<>> =>
          LET call == smoothing[1]
              n == Len(call.data)
          IN  IF n >= 2
              THEN /\ call.level = Holt(call.data, n, call.alpha, call.beta).level
                   /\ call.trend = Holt(call.data, n, call.alpha, call.beta).trend
              ELSE /\ call.smoothed = call.data
                   /\ call.level = (IF n = 0 THEN 0 ELSE call.data[n] * MILLI)
                   /\ call.trend = 0
    /\ \A c \in CallIds :
          (calls[c].pc # "idle" /\ Len(price_history) >= 2) =>
              calls[c].setup.trend =
                  Holt(calls[c].setup.y, Len(calls[c].setup.y), 200000, 50000).trend

\* Three prices that rise and fall back have been smoothed at alpha = 0.2,
\* beta = 0.05: the level is 116 and the trend 9.8.
C21_Witness ==
    /\ smoothing # <<>>
    /\ smoothing[1].data = <<100 * MILLI, 110 * MILLI, 100 * MILLI>>
    /\ smoothing[1].alpha = 200000
    /\ smoothing[1].beta = 50000
    /\ smoothing[1].level = 116 * MICRO
    /\ smoothing[1].trend = 9800000

(***************************************************************************)
(* features.py: _prefer_range on its own                                   *)
(***************************************************************************)

\* The bands <<ideal_min, ideal_max, absolute_min, absolute_max>> (units): the two
\* calculate_investment_score passes (lines 182-183) and one whose ideal range is a
\* single point.
PreferBands == {<<12, 28, 5, 45>>, <<25, 250, 5, 1000>>, <<10, 10, 0, 20>>}

\* The values scored (milli): every half unit from -1 to 50, and values around the
\* bounds of the wider band.
PreferValues ==
    {v * 500 : v \in -2..100}
        \cup {250 * MILLI, 400 * MILLI, 625 * MILLI, 999 * MILLI, 1000 * MILLI, 1500 * MILLI}

InitPrefer == Init /\ features = DocumentedDefaults /\ price_history = <<>> /\ seed = 0

\* FeatureService._prefer_range(value, ideal_min, ideal_max, absolute_min, absolute_max)
PreferRange(value, band) ==
    /\ preferred = <<>>
    /\ preferred' = <<[value |-> value, ideal_min |-> band[1], ideal_max |-> band[2],
                       absolute_min |-> band[3], absolute_max |-> band[4],
                       score |-> _prefer_range(value, band[1], band[2], band[3], band[4])]>>
    /\ UNCHANGED <<features, rating, fprice, price_history, seed, rng, calls, multiplier,
                   invoked, timeline, smoothing, predictor>>

NextPrefer == \E value \in PreferValues, band \in PreferBands : PreferRange(value, band)

SpecPrefer == InitPrefer /\ [][NextPrefer]_vars

\* C22: with absolute_min < ideal_min <= ideal_max < absolute_max, _prefer_range is
\* 1.0 on the inclusive ideal range, 0.0 at or outside the absolute bounds and
\* 1 - gap/span between them; it lies in [0, 1] and does not increase as the value
\* moves away from the ideal range.
C22_PreferRangeShape ==
    preferred # <<>> =>
        LET call == preferred[1]
            value == call.value
            lo == call.ideal_min * MILLI
            hi == call.ideal_max * MILLI
            floor == call.absolute_min * MILLI
            ceiling == call.absolute_max * MILLI
            Again(v) == _prefer_range(v, call.ideal_min, call.ideal_max,
                                      call.absolute_min, call.absolute_max)
        IN  /\ (lo <= value /\ value <= hi) => call.score = MICRO
            /\ (value <= floor \/ value >= ceiling) => call.score = 0
            /\ (floor < value /\ value < lo) =>
                   call.score = MICRO - ((lo - value) * MILLI) \div (call.ideal_min - call.absolute_min)
            /\ (hi < value /\ value < ceiling) =>
                   call.score = MICRO - ((value - hi) * MILLI) \div (call.absolute_max - call.ideal_max)
            /\ 0 <= call.score
            /\ call.score <= MICRO
            /\ \A further \in PreferValues :
                   (further <= value /\ value <= lo) \/ (hi <= value /\ value <= further) =>
                       Again(further) <= call.score

\* A volatility of 36.5, halfway between the ideal 28 and the absolute 45, has been
\* scored 0.5.
C22_Witness ==
    /\ preferred # <<>>
    /\ preferred[1].value = 36500
    /\ preferred[1].ideal_max = 28
    /\ preferred[1].absolute_max = 45
    /\ preferred[1].score = 500000

\* Every price of the history is above 0.
PositivePrices(history) == \A k \in 1..Len(history) : history[k].price > 0

\* The volatility (annualised, basis points) up to which a card counts as
\* moderately volatile.
ModerateVolatility == 1 * BASIS

\* A call on well-behaved inputs: two or more positive prices, a rising smoothed
\* trend and a volatility no higher than moderate.
WellBehaved(frame) ==
    /\ Len(price_history) >= 2
    /\ PositivePrices(price_history)
    /\ frame.setup.trend > 0
    /\ Le(frame.setup.volatility, ModerateVolatility)

\* C23: on well-behaved inputs predict_hybrid returns
\* conservative <= moderate <= aggressive.
C23_ScenariosOrderedWhenWellBehaved ==
    \A c \in CallIds :
        (calls[c].pc = "returned" /\ WellBehaved(calls[c])) =>
            /\ Le(calls[c].outcome.conservative, calls[c].outcome.moderate)
            /\ Le(calls[c].outcome.moderate, calls[c].outcome.aggressive)

\* A rising card of some volatility has been predicted: its simulated quartiles
\* differ and the three scenarios are in strict order.
C23_Witness ==
    \E c \in CallIds :
        /\ calls[c].pc = "returned"
        /\ WellBehaved(calls[c])
        /\ calls[c].setup.volatility > 0
        /\ calls[c].ts_result.conservative < calls[c].ts_result.aggressive
        /\ calls[c].outcome.conservative < calls[c].outcome.moderate
        /\ calls[c].outcome.moderate < calls[c].outcome.aggressive

\* confidence_upper - confidence_lower of a timeline entry, milli.
BandWidth(entry) == Sub(entry.confidence_upper, entry.confidence_lower)

\* C24: for one price series and one feature vector the band width
\* confidence_upper - confidence_lower does not decrease from one year of the
\* timeline to the next.
C24_BandWidensWithHorizon ==
    \A k \in 1..(Len(timeline.entries) - 1) :
        Le(BandWidth(timeline.entries[k]), BandWidth(timeline.entries[k + 1]))

\* C25: confidence_lower <= predicted_price <= confidence_upper is not an
\* invariant of predict_hybrid.  The median of simulated prices lies within the band,
\* and a predicted_price outside the band is the feature estimate pulling it there:
\* the estimate is then outside the band on the same side.
C25_FeatureEstimateLeavesBand ==
    \A c \in CallIds :
        (calls[c].pc = "returned" /\ Len(price_history) >= 2
            /\ PositivePrices(price_history)
            /\ ~HasNaN(calls[c].final_prices)) =>
            LET result == calls[c].outcome
            IN  /\ result.confidence_lower <= result.time_series_prediction
                /\ result.time_series_prediction <= result.confidence_upper
                /\ result.predicted_price < result.confidence_lower =>
                       result.feature_prediction < result.confidence_lower
                /\ result.predicted_price > result.confidence_upper =>
                       result.feature_prediction > result.confidence_upper

\* A card priced around 100 whose features carry the documented defaults (a
\* current_price of 50) has been predicted: the band is not empty and the
\* predicted_price lies under its lower end.
C25_Witness ==
    \E c \in CallIds :
        /\ calls[c].pc = "returned"
        /\ Len(price_history) >= 2
        /\ PositivePrices(price_history)
        /\ features = DocumentedDefaults
        /\ calls[c].outcome.confidence_lower < calls[c].outcome.confidence_upper
        /\ calls[c].outcome.predicted_price < calls[c].outcome.confidence_lower

\* C26: a call of predict_hybrid or generate_prediction_timeline leaves the
\* PricePredictor instance (time_model, feature_model, is_trained = False), the
\* caller's price_history list and the caller's features dict as they were: no step
\* of a call changes any of them.
C26_CallLeavesInputsAlone ==
    [][/\ predictor' = predictor
       /\ predictor.is_trained = FALSE
       /\ price_history' = price_history
       /\ features' = features]_vars

\* A timeline has been returned for a history listed newest first: the generator
\* has moved on from its seed, the list is in the order it was handed in and the
\* instance is as constructed.
C26_Witness ==
    /\ timeline.pc = "returned"
    /\ rng # seed
    /\ Len(price_history) >= 2
    /\ price_history[1].date > price_history[2].date
    /\ DOMAIN features # {}
    /\ predictor = PricePredictor

\* C28: in every result of predict_hybrid predicted_price and scenarios.moderate
\* carry the same value, and so do predicted_price and moderate in every entry of a
\* timeline.
C28_PredictedPriceIsModerate ==
    /\ \A c \in CallIds :
          calls[c].pc = "returned" =>
              calls[c].outcome.predicted_price = calls[c].outcome.moderate
    /\ \A k \in 1..Len(timeline.entries) :
          timeline.entries[k].predicted_price = timeline.entries[k].moderate

\* A timeline of two years has been returned whose second entry is a blend, not
\* the simulated median: predicted_price and moderate are that one number.
C28_Witness ==
    /\ timeline.pc = "returned"
    /\ Len(timeline.entries) = 2
    /\ timeline.entries[2].predicted_price # NaN
    /\ timeline.entries[2].predicted_price > timeline.entries[2].confidence_upper
    /\ timeline.entries[2].moderate = timeline.entries[2].predicted_price

\* C27: for every history of two or more strictly positive prices, every feature
\* vector with its fields in range and every years_ahead, predict_hybrid returns
\* conservative <= moderate <= aggressive.
C27_ScenariosAlwaysOrdered ==
    \A c \in CallIds :
        (calls[c].pc = "returned" /\ Len(price_history) >= 2
            /\ PositivePrices(price_history)) =>
            /\ Le(calls[c].outcome.conservative, calls[c].outcome.moderate)
            /\ Le(calls[c].outcome.moderate, calls[c].outcome.aggressive)

\* Every element of xs is the same value.
AllEqual(xs) == \A j, k \in 1..Len(xs) : xs[j] = xs[k]

\* C29: whenever the volatility estimate is 0, as it is for every history of
\* exactly two positive prices, the simulated paths coincide whatever shocks are
\* drawn: predict_hybrid returns confidence_lower = confidence_upper and the three
\* time-series percentiles are equal, for every years_ahead.
C29_NoVolatilityNoBand ==
    \A c \in CallIds :
        (calls[c].pc \in {"simulating", "simulated", "returned"}
            /\ Len(price_history) >= 2) =>
            /\ (Len(price_history) = 2 /\ PositivePrices(price_history)) =>
                   calls[c].setup.volatility = 0
            /\ calls[c].setup.volatility = 0 =>
                   /\ ~HasNaN(calls[c].final_prices)
                   /\ AllEqual(calls[c].final_prices)
                   /\ calls[c].pc = "returned" =>
                          /\ calls[c].outcome.confidence_lower # NaN
                          /\ calls[c].outcome.confidence_lower =
                                 calls[c].outcome.confidence_upper
                          /\ calls[c].ts_result.conservative = calls[c].ts_result.moderate
                          /\ calls[c].ts_result.moderate = calls[c].ts_result.aggressive

\* A card that went from 100 to 110 has been predicted two years ahead: the
\* volatility is 0 and the band is one price wide.
C29_Witness ==
    \E c \in CallIds :
        /\ calls[c].pc = "returned"
        /\ calls[c].years_ahead = 2
        /\ calls[c].setup.y = <<100 * MILLI, 110 * MILLI>>
        /\ calls[c].setup.volatility = 0
        /\ Len(calls[c].final_prices) = NSimulations
        /\ calls[c].outcome.confidence_lower = calls[c].outcome.confidence_upper
        /\ calls[c].outcome.confidence_lower > 0

\* Every observation of the history has the price of the first.
ConstantPrice(history) == \A k \in 1..Len(history) : history[k].price = history[1].price

\* C30: on two or more observations of one positive price c the smoother yields
\* level c and trend 0, the volatility is 0, and predict_hybrid returns
\* confidence_lower = confidence_upper = c, risk_level "low", reward_risk_ratio 0
\* and recommendation "sell", for any feature vector and any years_ahead.
C30_ConstantHistory ==
    \A c \in CallIds :
        (calls[c].pc \in {"simulating", "simulated", "returned"}
            /\ Len(price_history) >= 2
            /\ ConstantPrice(price_history)
            /\ PositivePrices(price_history)) =>
            LET price == price_history[1].price
            IN  /\ calls[c].setup.level = price * MILLI
                /\ calls[c].setup.trend = 0
                /\ calls[c].setup.volatility = 0
                /\ calls[c].pc = "returned" =>
                       /\ calls[c].outcome.confidence_lower = price
                       /\ calls[c].outcome.confidence_upper = price
                       /\ calls[c].outcome.risk_level = "low"
                       /\ calls[c].outcome.reward_risk_ratio = 0
                       /\ calls[c].outcome.recommendation = "sell"

\* A year of observations at 110 has been predicted two years ahead with strong
\* features: the band is 110 to 110 and the recommendation is to sell.
C30_Witness ==
    \E c \in CallIds :
        /\ calls[c].pc = "returned"
        /\ calls[c].years_ahead = 2
        /\ Len(price_history) = YearOfMonths
        /\ ConstantPrice(price_history)
        /\ features = StrongFeatures
        /\ calls[c].outcome.confidence_lower = 110 * MILLI
        /\ calls[c].outcome.confidence_upper = 110 * MILLI
        /\ calls[c].outcome.recommendation = "sell"

=============================================================================
